---- MODULE Spec2Model ----
(***************************************************************************)
(* A model of tt-build's src/tt_build/cli.py: optimize_json (the lenient   *)
(* JSON normaliser) and create_archive (the packaging loop around it).     *)
(*                                                                         *)
(* Text is a sequence of characters; a character is a one-character        *)
(* string, except for the named characters below.                          *)
(***************************************************************************)
EXTENDS Integers, Sequences, FiniteSets, TLC

VARIABLES f, pc, n, line, new_lines, full_string, data, decoded, k, ret, exc,
          walk, fi, manifest, files_to_include, files_to_remove, temp_files,
          archive, apc

jvars == <<f, pc, n, line, new_lines, full_string, data, decoded, k, ret, exc>>
avars == <<walk, fi, manifest, files_to_include, files_to_remove, temp_files,
           archive, apc>>
vars == <<f, pc, n, line, new_lines, full_string, data, decoded, k, ret, exc,
          walk, fi, manifest, files_to_include, files_to_remove, temp_files,
          archive, apc>>

----------------------------------------------------------------------------
(* Characters *)

QUOTE == "\""
BSLASH == "\\"
TAB == "\t"
LF == "\n"
CR == "\r"
BOM == "<U+FEFF>"
NBSP == "<U+00A0>"
\* a byte that is not valid UTF-8; a raw line holding it does not decode
INVALID == "<0xFF>"

Letters ==
  {"a","b","c","d","e","f","g","h","i","j","k","l","m","n","o","p","q","r",
   "s","t","u","v","w","x","y","z","A","B","C","D","E","F","G","H","I","J",
   "K","L","M","N","O","P","Q","R","S","T","U","V","W","X","Y","Z"}

Digits == {"0","1","2","3","4","5","6","7","8","9"}

\* what \s of the re module matches in a str pattern (of the characters here)
Spaces == {" ", TAB, LF, CR, NBSP}

IsSpace(c) == c \in Spaces

IsLetter(c) == c \in Letters

RECURSIVE Join(_)
\* ''.join(ss)
Join(ss) == IF ss = <<>> THEN <<>> ELSE Head(ss) \o Join(Tail(ss))

RECURSIVE ReplaceFrom(_, _, _, _)
\* s from index i on, with every c replaced by the text r
ReplaceFrom(s, i, c, r) ==
  IF i > Len(s) THEN <<>>
  ELSE (IF s[i] = c THEN r ELSE <<s[i]>>) \o ReplaceFrom(s, i + 1, c, r)

\* s.replace(c, r), c one character and r a text; s itself when c does not
\* occur in it
Replace(s, c, r) ==
  IF \A i \in 1..Len(s) : s[i] # c THEN s ELSE ReplaceFrom(s, 1, c, r)

RECURSIVE FirstIn(_, _, _)
\* the least i >= from with s[i] in S, or Len(s) + 1
FirstIn(s, from, S) ==
  IF from > Len(s) THEN Len(s) + 1
  ELSE IF s[from] \in S THEN from
  ELSE FirstIn(s, from + 1, S)

RECURSIVE FirstNotIn(_, _, _)
\* the least i >= from with s[i] not in S, or Len(s) + 1
FirstNotIn(s, from, S) ==
  IF from > Len(s) THEN Len(s) + 1
  ELSE IF s[from] \notin S THEN from
  ELSE FirstNotIn(s, from + 1, S)

----------------------------------------------------------------------------
(* optimize_json, per line: the comment stripper (lines 51-63) *)

\* "//" in line
HasDoubleSlash(s) == \E i \in 1..(Len(s)-1) : s[i] = "/" /\ s[i+1] = "/"

RECURSIVE CommentScan(_, _, _)
\* The for loop of lines 53-63 from index i (1-based) with the given in_str:
\* the index at which the line is cut, Len(s) + 1 when the loop ends without
\* a break.  On a backslash inside a string the loop only continues with the
\* next character.
CommentScan(s, i, in_str) ==
  IF i > Len(s) THEN Len(s) + 1
  ELSE IF in_str
       THEN IF s[i] = BSLASH THEN CommentScan(s, i + 1, in_str)
            ELSE IF s[i] = QUOTE THEN CommentScan(s, i + 1, FALSE)
            ELSE CommentScan(s, i + 1, in_str)
       ELSE IF s[i] = QUOTE THEN CommentScan(s, i + 1, TRUE)
            ELSE IF s[i] = "/" /\ i + 1 <= Len(s) /\ s[i+1] = "/" THEN i
            ELSE CommentScan(s, i + 1, in_str)

StripComment(s) ==
  IF HasDoubleSlash(s) THEN SubSeq(s, 1, CommentScan(s, 1, FALSE) - 1) ELSE s

----------------------------------------------------------------------------
(* optimize_json, per line: the bare value quoter (line 65).  With Q for    *)
(* the quote character, S for the white space class and its complement     *)
(* written ^S, the pattern is                                              *)
(*                                                                         *)
(*   group 1:  Q [^Q]* Q S* : S*                                           *)
(*   group 2:  [^Q [ { S]  [^, } ] Q]*  [a-zA-Z]  [^, } ] Q S]*            *)
(*   group 3:  S* [, }]                                                    *)
(*                                                                         *)
(* A match that starts at st is unique when it exists:                     *)
(*   group 1  s[st] is a quote; the key runs to the next quote q; then     *)
(*            come white space, a colon, and all the white space after it  *)
(*            (the next class excludes white space);                       *)
(*   group 2  starts at t0 with one character that is no quote, bracket,   *)
(*            brace or white space; the three classes that follow exclude  *)
(*            comma, closing brace, closing bracket and quote, and group 3 *)
(*            must end in a comma or closing brace, so the match ends at   *)
(*            the first of those four characters after t0, which must be a *)
(*            comma or a closing brace; the last class and the white space *)
(*            of group 3 split what lies before it into the token and its  *)
(*            trailing white space; the letter class needs a letter after  *)
(*            t0 with no white space between it and the token's end.       *)
(***************************************************************************)

\* the characters the classes of group 2 exclude after its first character
Stops == {",", "}", "]", QUOTE}

\* one past the last character in lo..hi-1 that is no white space (lo itself
\* is none)
TrimEnd(s, lo, hi) ==
  1 + CHOOSE j \in lo..(hi-1) :
        /\ ~IsSpace(s[j])
        /\ \A m \in (j+1)..(hi-1) : IsSpace(s[m])

\* The match of the pattern at st: [ok, g2 (start of group 2), e2 (one past
\* group 2), e3 (one past group 3)]
MatchAt(s, st) ==
  LET NoMatch == [ok |-> FALSE, g2 |-> 0, e2 |-> 0, e3 |-> 0]
      q == FirstIn(s, st + 1, {QUOTE})
      c == FirstNotIn(s, q + 1, Spaces)
      t0 == FirstNotIn(s, c + 1, Spaces)
      e == FirstIn(s, t0 + 1, Stops)
  IN  IF s[st] # QUOTE \/ q > Len(s) THEN NoMatch
      ELSE IF c > Len(s) \/ s[c] # ":" THEN NoMatch
      ELSE IF t0 > Len(s) \/ s[t0] \in {QUOTE, "[", "{"} THEN NoMatch
      ELSE IF e > Len(s) \/ s[e] \notin {",", "}"} THEN NoMatch
      ELSE LET e2 == TrimEnd(s, t0, e)
           IN  IF \E p \in (t0+1)..(e2-1) :
                     /\ IsLetter(s[p])
                     /\ \A m \in (p+1)..(e2-1) : ~IsSpace(s[m])
               THEN [ok |-> TRUE, g2 |-> t0, e2 |-> e2, e3 |-> e + 1]
               ELSE NoMatch

RECURSIVE FirstMatch(_, _)
\* the least position >= st at which the pattern matches, or Len(s) + 1
FirstMatch(s, st) ==
  IF st > Len(s) THEN Len(s) + 1
  ELSE IF MatchAt(s, st).ok THEN st
  ELSE FirstMatch(s, st + 1)

RECURSIVE ReSub(_, _)
\* re.sub(pattern, r'\1"\2"\3', s) from position st on: the leftmost match
\* is replaced and the search goes on after it
ReSub(s, st) ==
  LET at == FirstMatch(s, st)
  IN  IF at > Len(s) THEN SubSeq(s, st, Len(s))
      ELSE LET m == MatchAt(s, at)
           IN  SubSeq(s, st, m.g2 - 1) \o <<QUOTE>>
                 \o SubSeq(s, m.g2, m.e2 - 1) \o <<QUOTE>>
                 \o SubSeq(s, m.e2, m.e3 - 1) \o ReSub(s, m.e3)

QuoteBareValues(s) == ReSub(s, 1)

----------------------------------------------------------------------------
(* optimize_json, per line: the character replacements (lines 68-74) *)

ReplaceChars(s) ==
  LET s1 == Replace(s, BOM, <<>>)
      s2 == Replace(s1, ";", <<",">>)
      s3 == Replace(s2, TAB, <<" ">>)
      s4 == Replace(s3, CR, <<>>)
      s5 == Replace(s4, LF, <<" ">>)
      s6 == Replace(s5, " ", <<" ">>)
  IN  Replace(s6, NBSP, <<>>)

----------------------------------------------------------------------------
(* optimize_json: the bracket depth truncator (lines 79-94) *)

RECURSIVE BracketScanExclusive(_, _, _, _)
\* BracketScan with the cut before the closing bracket (full_string[0:i])
BracketScanExclusive(s, i, in_str, stack) ==
  IF i > Len(s) THEN Len(s)
  ELSE IF in_str
       THEN BracketScanExclusive(s, i + 1, s[i] # QUOTE, stack)
       ELSE IF s[i] = QUOTE THEN BracketScanExclusive(s, i + 1, TRUE, stack)
            ELSE IF s[i] = "["
                 THEN BracketScanExclusive(s, i + 1, FALSE, stack + 1)
            ELSE IF s[i] = "]"
                 THEN IF stack - 1 = 0 THEN i - 1
                      ELSE BracketScanExclusive(s, i + 1, FALSE, stack - 1)
            ELSE BracketScanExclusive(s, i + 1, FALSE, stack)

RECURSIVE BracketScan(_, _, _, _)
\* The for loop of lines 82-94 from index i (1-based): the length of the
\* text that is kept, Len(s) when the loop ends without a break
BracketScan(s, i, in_str, stack) ==
  IF i > Len(s) THEN Len(s)
  ELSE IF in_str
       THEN BracketScan(s, i + 1, s[i] # QUOTE, stack)
       ELSE IF s[i] = QUOTE THEN BracketScan(s, i + 1, TRUE, stack)
            ELSE IF s[i] = "[" THEN BracketScan(s, i + 1, FALSE, stack + 1)
            ELSE IF s[i] = "]"
                 THEN IF stack - 1 = 0 THEN i
                      ELSE BracketScan(s, i + 1, FALSE, stack - 1)
            ELSE BracketScan(s, i + 1, FALSE, stack)

Truncate(s) == SubSeq(s, 1, BracketScan(s, 1, FALSE, 0))

----------------------------------------------------------------------------
(* json.loads (line 97), as the standard library's decoder parses.         *)
(*                                                                         *)
(* A JSON value is [t, v]: t is "str" (v its characters), "num" (v the     *)
(* characters of the number as written), "lit" (v the characters of true,  *)
(* false, null, NaN, Infinity or -Infinity), "arr" (v the elements) or     *)
(* "obj" (v the members [key, val] in the order of the dict).              *)
(* A parse result is [ok, v, p]: p is the index after the value.           *)
(***************************************************************************)

Str(cs) == [t |-> "str", v |-> cs]

NoValue == [t |-> "none", v |-> <<>>]

ParseFail == [ok |-> FALSE, v |-> NoValue, p |-> 0]

\* the decoder's WHITESPACE
JsonSpaces == {" ", TAB, LF, CR}

SkipSpace(s, p) == FirstNotIn(s, p, JsonSpaces)

\* characters below U+0020, which a string may not hold unescaped
IsControl(c) == c \in {TAB, LF, CR}

HexDigits == Digits \cup {"a","b","c","d","e","f","A","B","C","D","E","F"}

\* whether the characters of w stand in s from p on
StartsWith(s, p, w) ==
  /\ p + Len(w) - 1 <= Len(s)
  /\ \A i \in 1..Len(w) : s[p + i - 1] = w[i]

\* the decoder's BACKSLASH table
Unescaped(c) ==
  CASE c = QUOTE -> QUOTE
    [] c = BSLASH -> BSLASH
    [] c = "/" -> "/"
    [] c = "b" -> "<U+0008>"
    [] c = "f" -> "<U+000C>"
    [] c = "n" -> LF
    [] c = "r" -> CR
    [] c = "t" -> TAB

RECURSIVE ParseString(_, _, _)
\* scanstring, strict: the string whose content starts at p (after the
\* opening quote), acc the characters read so far.  A \uXXXX escape is kept
\* as one character named by its digits.
ParseString(s, p, acc) ==
  IF p > Len(s) THEN ParseFail
  ELSE IF s[p] = QUOTE THEN [ok |-> TRUE, v |-> Str(acc), p |-> p + 1]
  ELSE IF s[p] = BSLASH
       THEN IF p + 1 > Len(s) THEN ParseFail
            ELSE IF s[p+1] = "u"
                 THEN IF p + 5 <= Len(s)
                         /\ \A i \in 2..5 : s[p+i] \in HexDigits
                      THEN ParseString(s, p + 6,
                             Append(acc, "<U+" \o s[p+2] \o s[p+3]
                                           \o s[p+4] \o s[p+5] \o ">"))
                      ELSE ParseFail
            ELSE IF s[p+1] \in {QUOTE, BSLASH, "/", "b", "f", "n", "r", "t"}
                 THEN ParseString(s, p + 2, Append(acc, Unescaped(s[p+1])))
                 ELSE ParseFail
  ELSE IF IsControl(s[p]) THEN ParseFail
  ELSE ParseString(s, p + 1, Append(acc, s[p]))

\* NUMBER_RE at p: -?(0|[1-9][0-9]*) then an optional fraction and an
\* optional exponent; the index after the match, 0 when there is none
NumberEnd(s, p) ==
  LET i0 == IF p <= Len(s) /\ s[p] = "-" THEN p + 1 ELSE p
      i1 == IF i0 <= Len(s) /\ s[i0] = "0" THEN i0 + 1
            ELSE FirstNotIn(s, i0, Digits)
      f0 == FirstNotIn(s, i1 + 1, Digits)
      i2 == IF i1 <= Len(s) /\ s[i1] = "." /\ f0 > i1 + 1 THEN f0 ELSE i1
      x0 == IF i2 + 1 <= Len(s) /\ s[i2+1] \in {"+", "-"}
            THEN i2 + 2 ELSE i2 + 1
      x1 == FirstNotIn(s, x0, Digits)
      i3 == IF i2 <= Len(s) /\ s[i2] \in {"e", "E"} /\ x1 > x0
            THEN x1 ELSE i2
  IN  IF i1 = i0 THEN 0 ELSE i3

RECURSIVE DictSet(_, _, _)
\* d[key] = val on a dict held as its members in insertion order: a key the
\* dict has keeps its place, a new key goes last
DictSet(d, key, val) ==
  IF d = <<>> THEN <<[key |-> key, val |-> val]>>
  ELSE IF Head(d).key = key THEN <<[key |-> key, val |-> val]>> \o Tail(d)
  ELSE <<Head(d)>> \o DictSet(Tail(d), key, val)

Literals ==
  << <<"n","u","l","l">>, <<"t","r","u","e">>, <<"f","a","l","s","e">> >>

LateLiterals ==
  << <<"N","a","N">>, <<"I","n","f","i","n","i","t","y">>,
     <<"-","I","n","f","i","n","i","t","y">> >>

RECURSIVE ParseValue(_, _)
RECURSIVE ParseMembers(_, _, _)
RECURSIVE ParseElements(_, _, _)

\* scan_once at p
ParseValue(s, p) ==
  IF p > Len(s) THEN ParseFail
  ELSE IF s[p] = QUOTE THEN ParseString(s, p + 1, <<>>)
  ELSE IF s[p] = "{"
       THEN LET q == SkipSpace(s, p + 1)
            IN  IF q > Len(s) THEN ParseFail
                ELSE IF s[q] = "}"
                     THEN [ok |-> TRUE, v |-> [t |-> "obj", v |-> <<>>],
                           p |-> q + 1]
                ELSE ParseMembers(s, q, <<>>)
  ELSE IF s[p] = "["
       THEN LET q == SkipSpace(s, p + 1)
            IN  IF q > Len(s) THEN ParseFail
                ELSE IF s[q] = "]"
                     THEN [ok |-> TRUE, v |-> [t |-> "arr", v |-> <<>>],
                           p |-> q + 1]
                ELSE ParseElements(s, q, <<>>)
  ELSE IF \E i \in 1..3 : StartsWith(s, p, Literals[i])
       THEN LET w == Literals[CHOOSE i \in 1..3 : StartsWith(s, p, Literals[i])]
            IN  [ok |-> TRUE, v |-> [t |-> "lit", v |-> w], p |-> p + Len(w)]
  ELSE IF NumberEnd(s, p) # 0
       THEN [ok |-> TRUE,
             v |-> [t |-> "num", v |-> SubSeq(s, p, NumberEnd(s, p) - 1)],
             p |-> NumberEnd(s, p)]
  ELSE IF \E i \in 1..3 : StartsWith(s, p, LateLiterals[i])
       THEN LET w == LateLiterals[
                       CHOOSE i \in 1..3 : StartsWith(s, p, LateLiterals[i])]
            IN  [ok |-> TRUE, v |-> [t |-> "lit", v |-> w], p |-> p + Len(w)]
  ELSE ParseFail

\* JSONObject's loop: p is where a member's key must open, acc the dict of
\* the members read so far
ParseMembers(s, p, acc) ==
  IF p > Len(s) \/ s[p] # QUOTE THEN ParseFail
  ELSE LET key == ParseString(s, p + 1, <<>>)
       IN  IF ~key.ok THEN ParseFail
           ELSE LET c == SkipSpace(s, key.p)
                IN  IF c > Len(s) \/ s[c] # ":" THEN ParseFail
                    ELSE LET val == ParseValue(s, SkipSpace(s, c + 1))
                         IN  IF ~val.ok THEN ParseFail
                             ELSE LET e == SkipSpace(s, val.p)
                                      d == DictSet(acc, key.v.v, val.v)
                                  IN  IF e > Len(s) THEN ParseFail
                                      ELSE IF s[e] = "}"
                                           THEN [ok |-> TRUE,
                                                 v |-> [t |-> "obj", v |-> d],
                                                 p |-> e + 1]
                                      ELSE IF s[e] = ","
                                           THEN ParseMembers(
                                                  s, SkipSpace(s, e + 1), d)
                                      ELSE ParseFail

\* JSONArray's loop: p is where an element must start
ParseElements(s, p, acc) ==
  LET val == ParseValue(s, p)
  IN  IF ~val.ok THEN ParseFail
      ELSE LET e == SkipSpace(s, val.p)
           IN  IF e > Len(s) THEN ParseFail
               ELSE IF s[e] = "]"
                    THEN [ok |-> TRUE,
                          v |-> [t |-> "arr", v |-> Append(acc, val.v)],
                          p |-> e + 1]
               ELSE IF s[e] = ","
                    THEN ParseElements(s, SkipSpace(s, e + 1),
                                       Append(acc, val.v))
               ELSE ParseFail

\* json.loads(s): [ok, v]; not ok stands for JSONDecodeError
JsonLoads(s) ==
  LET r == ParseValue(s, SkipSpace(s, 1))
  IN  IF r.ok /\ SkipSpace(s, r.p) = Len(s) + 1
      THEN [ok |-> TRUE, v |-> r.v]
      ELSE [ok |-> FALSE, v |-> NoValue]

----------------------------------------------------------------------------
(* json.dumps(data, ensure_ascii=False) (line 122): the default separators *)
(* are a comma and a colon, each followed by a space.                      *)

\* the encoder's ESCAPE_DCT, for the characters of the model
EscapeChar(c) ==
  CASE c = QUOTE -> <<BSLASH, QUOTE>>
    [] c = BSLASH -> <<BSLASH, BSLASH>>
    [] c = LF -> <<BSLASH, "n">>
    [] c = CR -> <<BSLASH, "r">>
    [] c = TAB -> <<BSLASH, "t">>
    [] c = "<U+0008>" -> <<BSLASH, "b">>
    [] c = "<U+000C>" -> <<BSLASH, "f">>
    [] OTHER -> <<c>>

RECURSIVE EscapeString(_)
EscapeString(cs) ==
  IF cs = <<>> THEN <<>> ELSE EscapeChar(Head(cs)) \o EscapeString(Tail(cs))

RECURSIVE JsonDumps(_)
RECURSIVE DumpElements(_)
RECURSIVE DumpMembers(_)

\* A number is written as it was read: the model holds integers only.
JsonDumps(v) ==
  CASE v.t = "str" -> <<QUOTE>> \o EscapeString(v.v) \o <<QUOTE>>
    [] v.t = "arr" -> <<"[">> \o DumpElements(v.v) \o <<"]">>
    [] v.t = "obj" -> <<"{">> \o DumpMembers(v.v) \o <<"}">>
    [] OTHER -> v.v

DumpElements(es) ==
  IF es = <<>> THEN <<>>
  ELSE JsonDumps(Head(es))
         \o (IF Tail(es) = <<>> THEN <<>>
             ELSE <<",", " ">> \o DumpElements(Tail(es)))

DumpMembers(ms) ==
  IF ms = <<>> THEN <<>>
  ELSE <<QUOTE>> \o EscapeString(Head(ms).key) \o <<QUOTE, ":", " ">>
         \o JsonDumps(Head(ms).val)
         \o (IF Tail(ms) = <<>> THEN <<>>
             ELSE <<",", " ">> \o DumpMembers(Tail(ms)))

----------------------------------------------------------------------------
(* optimize_json: the loop over the decoded objects (lines 99-120) *)

K_id == <<"i","d">>
K_privileged == <<"p","r","i","v","i","l","e","g","e","d">>
K_strict_lua == <<"s","t","r","i","c","t"," ","l","u","a">>
K_script == <<"s","c","r","i","p","t">>
K_scripts == <<"s","c","r","i","p","t","s">>
K_mute_lua == <<"m","u","t","e"," ","l","u","a">>
UnknownId == Str(<<"u","n","k","n","o","w","n"," ","i","d">>)

\* Python's True
PyTrue == [t |-> "lit", v |-> <<"t","r","u","e">>]

\* list(d.keys())
Keys(d) == [i \in 1..Len(d) |-> d[i].key]

\* key in obj_keys
HasKey(d, key) == \E i \in 1..Len(d) : d[i].key = key

\* d.get(key, default)
DictGet(d, key, default) ==
  IF HasKey(d, key)
  THEN d[CHOOSE i \in 1..Len(d) : d[i].key = key].val
  ELSE default

\* del d[key]
DictDel(d, key) == SelectSeq(d, LAMBDA m : m.key # key)

\* for arr_obj in data: the values the loop variable takes (a dict yields
\* its keys, a str its characters); data is a list, a dict or a str
Items(v) ==
  CASE v.t = "arr" -> v.v
    [] v.t = "obj" -> [i \in 1..Len(v.v) |-> Str(v.v[i].key)]
    [] v.t = "str" -> [i \in 1..Len(v.v) |-> Str(<<v.v[i]>>)]

\* whether iter(data) succeeds
Iterable(v) == v.t \in {"arr", "obj", "str"}

\* PostObject with mute lua set only where the dict has none (setdefault)
PostObjectKeepsMute(d) ==
  LET d1 == IF HasKey(d, K_strict_lua) THEN DictDel(d, K_strict_lua) ELSE d
  IN  IF (HasKey(d, K_script) \/ HasKey(d, K_scripts)) /\ ~HasKey(d, K_mute_lua)
      THEN DictSet(d1, K_mute_lua, PyTrue)
      ELSE d1

\* PostObject with a new mute lua put before the other members
PostObjectMuteFirst(d) ==
  LET d1 == IF HasKey(d, K_strict_lua) THEN DictDel(d, K_strict_lua) ELSE d
  IN  IF HasKey(d, K_script) \/ HasKey(d, K_scripts)
      THEN IF HasKey(d1, K_mute_lua) THEN DictSet(d1, K_mute_lua, PyTrue)
           ELSE <<[key |-> K_mute_lua, val |-> PyTrue]>> \o d1
      ELSE d1

\* lines 112-120 on one dict d (its members): strict lua is deleted, and
\* mute lua is set when script or scripts is a key
PostObject(d) ==
  LET d1 == IF HasKey(d, K_strict_lua) THEN DictDel(d, K_strict_lua) ELSE d
  IN  IF HasKey(d, K_script) \/ HasKey(d, K_scripts)
      THEN DictSet(d1, K_mute_lua, PyTrue)
      ELSE d1

\* IsPrivileged looking for the key that replaces privileged
IsPrivilegedOtherKey(d) ==
  HasKey(d, <<"r","e","q","u","i","r","e"," ","p","r","i","v","i","l","e","g","e","s">>)

\* line 106
IsPrivileged(d) == HasKey(d, K_privileged)

\* line 101
PluginId(d) == DictGet(d, K_id, UnknownId)

----------------------------------------------------------------------------
(* optimize_json as a state machine *)

NoExc == [type |-> "none", args |-> <<>>]

\* raw_bytes.decode("utf-8") succeeds
Decodable(raw) == \A i \in 1..Len(raw) : raw[i] # INVALID

\* lines 44-49: the next raw line is read and decoded
ReadLine ==
  /\ pc = "readline"
  /\ n < Len(f)
  /\ n' = n + 1
  /\ IF Decodable(f[n+1])
     THEN /\ line' = f[n+1]
          /\ pc' = "strip"
          /\ exc' = exc
     ELSE /\ line' = line
          /\ pc' = "raised"
          /\ exc' = [type |-> "UnicodeDecodeError", args |-> <<>>]
  /\ UNCHANGED <<f, new_lines, full_string, data, decoded, k, ret>>
  /\ UNCHANGED avars

\* lines 51-63
StripStep ==
  /\ pc = "strip"
  /\ line' = StripComment(line)
  /\ pc' = "quote"
  /\ UNCHANGED <<f, n, new_lines, full_string, data, decoded, k, ret, exc>>
  /\ UNCHANGED avars

\* line 65
QuoteStep ==
  /\ pc = "quote"
  /\ line' = QuoteBareValues(line)
  /\ pc' = "replace"
  /\ UNCHANGED <<f, n, new_lines, full_string, data, decoded, k, ret, exc>>
  /\ UNCHANGED avars

\* lines 68-76
ReplaceStep ==
  /\ pc = "replace"
  /\ line' = ReplaceChars(line)
  /\ new_lines' = Append(new_lines, line')
  /\ pc' = "readline"
  /\ UNCHANGED <<f, n, full_string, data, decoded, k, ret, exc>>
  /\ UNCHANGED avars

\* lines 79-94, after the last line
TruncateStep ==
  /\ pc = "readline"
  /\ n = Len(f)
  /\ full_string' = Truncate(Join(new_lines))
  /\ pc' = "loads"
  /\ UNCHANGED <<f, n, line, new_lines, data, decoded, k, ret, exc>>
  /\ UNCHANGED avars

\* line 97; decoded keeps what json.loads returned
LoadsStep ==
  /\ pc = "loads"
  /\ LET loaded == JsonLoads(full_string)
     IN  IF loaded.ok
         THEN /\ data' = loaded.v
              /\ decoded' = loaded.v
              /\ pc' = "loop"
              /\ exc' = exc
         ELSE /\ data' = data
              /\ decoded' = decoded
              /\ pc' = "raised"
              /\ exc' = [type |-> "JSONDecodeError", args |-> <<>>]
  /\ UNCHANGED <<f, n, line, new_lines, full_string, k, ret>>
  /\ UNCHANGED avars

\* lines 99-120: the for statement takes the next arr_obj and the body runs
\* on it; k counts the iterations that have ended
LoopStep ==
  /\ pc = "loop"
  /\ IF Iterable(data) THEN k < Len(Items(data)) ELSE TRUE
  /\ IF ~Iterable(data)
     THEN /\ exc' = [type |-> "TypeError", args |-> <<>>]
          /\ pc' = "raised"
          /\ UNCHANGED <<data, k>>
     ELSE LET arr_obj == Items(data)[k + 1]
          IN  IF arr_obj.t # "obj"
              THEN /\ exc' = [type |-> "AttributeError", args |-> <<>>]
                   /\ pc' = "raised"
                   /\ UNCHANGED <<data, k>>
              ELSE IF IsPrivileged(arr_obj.v)
              THEN /\ exc' = [type |-> "Exception",
                              args |-> <<PluginId(arr_obj.v)>>]
                   /\ pc' = "raised"
                   /\ UNCHANGED <<data, k>>
              ELSE /\ data' = [data EXCEPT
                                 !.v[k + 1] = [t |-> "obj",
                                               v |-> PostObject(arr_obj.v)]]
                   /\ k' = k + 1
                   /\ UNCHANGED <<pc, exc>>
  /\ UNCHANGED <<f, n, line, new_lines, full_string, decoded, ret>>
  /\ UNCHANGED avars

\* line 122
ReturnStep ==
  /\ pc = "loop"
  /\ Iterable(data)
  /\ k = Len(Items(data))
  /\ ret' = JsonDumps(data)
  /\ pc' = "returned"
  /\ UNCHANGED <<f, n, line, new_lines, full_string, data, decoded, k, exc>>
  /\ UNCHANGED avars

NextJson ==
  \/ ReadLine
  \/ StripStep
  \/ QuoteStep
  \/ ReplaceStep
  \/ TruncateStep
  \/ LoadsStep
  \/ LoopStep
  \/ ReturnStep

\* optimize_json is entered with the file's lines
InitJson(files) ==
  /\ f \in files
  /\ pc = "readline"
  /\ n = 0
  /\ line = <<>>
  /\ new_lines = <<>>
  /\ full_string = <<>>
  /\ data = NoValue
  /\ decoded = NoValue
  /\ k = 0
  /\ ret = <<>>
  /\ exc = NoExc

\* create_archive is not running
ArchiveIdle ==
  /\ walk = <<>>
  /\ fi = 0
  /\ manifest = [thumbnail |-> FALSE]
  /\ files_to_include = <<>>
  /\ files_to_remove = {}
  /\ temp_files = {}
  /\ archive = <<>>
  /\ apc = "idle"

----------------------------------------------------------------------------
(* optimize_json as one call, for its caller *)

\* lines 51-74 on one decoded line
ProcessLine(raw) == ReplaceChars(QuoteBareValues(StripComment(raw)))

RECURSIVE PostLoop(_, _)
\* lines 99-122 from the iteration after the k-th: [ok, text], not ok when
\* an exception leaves the loop
PostLoop(d, done) ==
  IF ~Iterable(d) THEN [ok |-> FALSE, text |-> <<>>]
  ELSE IF done = Len(Items(d)) THEN [ok |-> TRUE, text |-> JsonDumps(d)]
  ELSE LET arr_obj == Items(d)[done + 1]
       IN  IF arr_obj.t # "obj" \/ IsPrivileged(arr_obj.v)
           THEN [ok |-> FALSE, text |-> <<>>]
           ELSE PostLoop([d EXCEPT !.v[done + 1] =
                            [t |-> "obj", v |-> PostObject(arr_obj.v)]],
                         done + 1)

\* optimize_json(config, f): [ok, text]; not ok stands for any exception
OptimizeJson(fl) ==
  IF \E i \in 1..Len(fl) : ~Decodable(fl[i])
  THEN [ok |-> FALSE, text |-> <<>>]
  ELSE LET loaded == JsonLoads(Truncate(Join(
                       [i \in 1..Len(fl) |-> ProcessLine(fl[i])])))
       IN  IF loaded.ok THEN PostLoop(loaded.v, 0)
           ELSE [ok |-> FALSE, text |-> <<>>]

----------------------------------------------------------------------------
(* Input files *)

\* the texts over the characters of S of length at most m
Texts(S, m) == UNION {[1..l -> S] : l \in 0..m}

MaxCommentLen == 5
MaxTailLen == 4

CommentChars == {QUOTE, BSLASH, "/", "a"}
TailChars == {"a", "1", ",", "}", "]", " ", ";"}
KeyColon == <<QUOTE, "k", QUOTE, ":">>

\* [{"id": "x", "strict lua": 1, "script": 1}]
BaselineText ==
  JsonDumps([t |-> "arr", v |-> <<[t |-> "obj", v |->
    <<[key |-> K_id, val |-> Str(<<"x">>)],
      [key |-> K_strict_lua, val |-> [t |-> "num", v |-> <<"1">>]],
      [key |-> K_script, val |-> [t |-> "num", v |-> <<"1">>]]>>]>>])

\* one-line files: a line of comment characters, or a key and what follows
LineFiles ==
  {<<l>> : l \in Texts(CommentChars, MaxCommentLen)}
    \cup {<<KeyColon \o l>> : l \in Texts(TailChars, MaxTailLen)}
    \cup {<<BaselineText>>, <<<<"[", INVALID>>>>}

InitLine == InitJson(LineFiles) /\ ArchiveIdle

SpecLine == InitLine /\ [][NextJson]_vars

MaxDocLen == 5
MaxSplitLen == 3

DocChars == {"[", "]", "{", "}", QUOTE, BSLASH, "1"}

\* one-line files of brackets, braces, quotes and a scalar, and the same
\* texts cut into two lines (readlines keeps the line feed)
DocFiles ==
  {<<d>> : d \in Texts(DocChars, MaxDocLen)}
    \cup {<<SubSeq(d, 1, i) \o <<LF>>, SubSeq(d, i + 1, Len(d))>> :
            <<d, i>> \in {x \in Texts(DocChars, MaxSplitLen) \X (0..MaxSplitLen) :
                            x[2] <= Len(x[1])}}
    \cup {<<BaselineText>>, <<<<"[", INVALID>>>>}

InitDoc == InitJson(DocFiles) /\ ArchiveIdle

SpecDoc == InitDoc /\ [][NextJson]_vars

MaxItems == 4

Num1 == [t |-> "num", v |-> <<"1">>]

\* the members a generated object is made of
Members ==
  <<[key |-> K_id, val |-> Str(<<"x">>)],
    [key |-> K_privileged, val |-> Num1],
    [key |-> K_strict_lua, val |-> Num1],
    [key |-> K_script, val |-> Num1],
    [key |-> K_scripts, val |-> [t |-> "arr", v |-> <<Str(<<"a">>)>>]],
    [key |-> K_mute_lua, val |-> [t |-> "lit", v |-> <<"f","a","l","s","e">>]]>>

RECURSIVE ObjectsOf(_, _, _)
\* the objects a sequence of items stands for: item i > 0 is Members[i],
\* item 0 closes an object and opens the next
ObjectsOf(items, cur, acc) ==
  IF items = <<>> THEN Append(acc, [t |-> "obj", v |-> cur])
  ELSE IF Head(items) = 0
       THEN ObjectsOf(Tail(items), <<>>, Append(acc, [t |-> "obj", v |-> cur]))
       ELSE ObjectsOf(Tail(items), Append(cur, Members[Head(items)]), acc)

\* strict JSON files: one line, an array of objects as json.dumps writes it
ObjectFiles ==
  {<<JsonDumps([t |-> "arr", v |-> ObjectsOf(items, <<>>, <<>>)])>> :
     items \in Texts(0..Len(Members), MaxItems)}
    \cup {<<<<"[", "]">>>>, <<<<"[", INVALID>>>>}

InitPost == InitJson(ObjectFiles) /\ ArchiveIdle

SpecPost == InitPost /\ [][NextJson]_vars

----------------------------------------------------------------------------
(* create_archive (lines 124-211).  A file of the input directory is        *)
(* [path, lines]: path its path relative to the input directory, as the    *)
(* names of its directories and its own name, each a text; lines its       *)
(* content.  walk is the order in which os.walk yields the files.          *)

N_json == <<".", "j", "s", "o", "n">>
N_manifest ==
  <<"p","l","u","g","i","n",".","m","a","n","i","f","e","s","t">>
N_thumb == <<"t", ".", "p", "n", "g">>
N_redundancy == <<"R","e","d","u","n","d","a","n","c","y">>

\* IGNORED_EXTENSIONS (line 26)
IgnoredExtensions ==
  {<<".", "p", "y">>, <<".", "m", "d">>, <<".", "s", "h">>}

\* Config.ignored_directories (line 37)
IgnoredDirectories == {N_redundancy}

\* name.endswith(ext)
EndsWith(name, ext) ==
  /\ Len(ext) <= Len(name)
  /\ SubSeq(name, Len(name) - Len(ext) + 1, Len(name)) = ext

\* part.startswith(".") or part.startswith("_")
StartsHidden(part) == part # <<>> /\ part[1] \in {".", "_"}

FileName(file) == file.path[Len(file.path)]

\* lines 149, 154 and 159: the file is left out
Ignored(file) ==
  \/ \E ext \in IgnoredExtensions : EndsWith(FileName(file), ext)
  \/ \E i \in 1..Len(file.path) : StartsHidden(file.path[i])
  \/ \E i \in 1..Len(file.path) : file.path[i] \in IgnoredDirectories

\* line 171; the output format is always STORE
IsManifest(file) == file.path = <<N_manifest>>

\* line 186
IsJson(file) == EndsWith(FileName(file), N_json)

\* lines 149-161: an ignored file is passed over
SkipFile ==
  /\ apc = "walk"
  /\ fi < Len(walk)
  /\ Ignored(walk[fi + 1])
  /\ fi' = fi + 1
  /\ UNCHANGED <<walk, manifest, files_to_include, files_to_remove,
                 temp_files, archive, apc>>
  /\ UNCHANGED jvars

\* lines 171-183: the manifest is written without its thumbnail, and the
\* thumbnail's file, when it exists, is marked for removal
ManifestFile ==
  /\ apc = "walk"
  /\ fi < Len(walk)
  /\ ~Ignored(walk[fi + 1])
  /\ IsManifest(walk[fi + 1])
  /\ files_to_remove' =
       IF manifest.thumbnail /\ \E i \in 1..Len(walk) : walk[i].path = <<N_thumb>>
       THEN files_to_remove \cup {<<N_thumb>>}
       ELSE files_to_remove
  /\ manifest' = [thumbnail |-> FALSE]
  /\ temp_files' = temp_files \cup {walk[fi + 1].path}
  /\ files_to_include' =
       Append(files_to_include,
              [temp |-> TRUE, path |-> walk[fi + 1].path, text |-> <<>>])
  /\ fi' = fi + 1
  /\ UNCHANGED <<walk, archive, apc>>
  /\ UNCHANGED jvars

\* JsonFile with the exception of optimize_json caught: the file is passed
\* over and the walk goes on
JsonFileCaught ==
  /\ apc = "walk"
  /\ fi < Len(walk)
  /\ ~Ignored(walk[fi + 1])
  /\ ~IsManifest(walk[fi + 1])
  /\ IsJson(walk[fi + 1])
  /\ temp_files' = temp_files \cup {walk[fi + 1].path}
  /\ LET result == OptimizeJson(walk[fi + 1].lines)
     IN  files_to_include' =
           IF result.ok
           THEN Append(files_to_include,
                       [temp |-> TRUE, path |-> walk[fi + 1].path,
                        text |-> result.text])
           ELSE files_to_include
  /\ fi' = fi + 1
  /\ UNCHANGED <<walk, manifest, files_to_remove, archive, apc>>
  /\ UNCHANGED jvars

\* lines 186-194: the temporary file is opened, then optimize_json runs; an
\* exception it raises leaves create_archive
JsonFile ==
  /\ apc = "walk"
  /\ fi < Len(walk)
  /\ ~Ignored(walk[fi + 1])
  /\ ~IsManifest(walk[fi + 1])
  /\ IsJson(walk[fi + 1])
  /\ temp_files' = temp_files \cup {walk[fi + 1].path}
  /\ LET result == OptimizeJson(walk[fi + 1].lines)
     IN  IF result.ok
         THEN /\ files_to_include' =
                   Append(files_to_include,
                          [temp |-> TRUE, path |-> walk[fi + 1].path,
                           text |-> result.text])
              /\ fi' = fi + 1
              /\ apc' = apc
         ELSE /\ apc' = "raised"
              /\ UNCHANGED <<files_to_include, fi>>
  /\ UNCHANGED <<walk, manifest, files_to_remove, archive>>
  /\ UNCHANGED jvars

\* line 195: any other file goes into the archive as it is
OtherFile ==
  /\ apc = "walk"
  /\ fi < Len(walk)
  /\ ~Ignored(walk[fi + 1])
  /\ ~IsManifest(walk[fi + 1])
  /\ ~IsJson(walk[fi + 1])
  /\ files_to_include' =
       Append(files_to_include,
              [temp |-> FALSE, path |-> walk[fi + 1].path, text |-> <<>>])
  /\ fi' = fi + 1
  /\ UNCHANGED <<walk, manifest, files_to_remove, temp_files, archive, apc>>
  /\ UNCHANGED jvars

\* lines 199-209, after the walk: the archive is written from
\* files_to_include but for the files marked for removal (a temporary file
\* is never one of them), and the temporary directory is removed
WriteArchive ==
  /\ apc = "walk"
  /\ fi = Len(walk)
  /\ archive' =
       <<SelectSeq(files_to_include,
                   LAMBDA e : e.temp \/ e.path \notin files_to_remove)>>
  /\ temp_files' = {}
  /\ apc' = "done"
  /\ UNCHANGED <<walk, fi, manifest, files_to_include, files_to_remove>>
  /\ UNCHANGED jvars

NextArchive ==
  \/ SkipFile
  \/ ManifestFile
  \/ JsonFile
  \/ OtherFile
  \/ WriteArchive

MaxFiles == 3

\* [{"privileged": 1}]
PrivilegedText ==
  JsonDumps([t |-> "arr", v |-> <<[t |-> "obj", v |->
    <<[key |-> K_privileged, val |-> [t |-> "num", v |-> <<"1">>]]>>]>>])

\* the files a modelled input directory may hold: in its root four .json
\* files (one that normalises, one with a privileged key, one malformed, one
\* that is not UTF-8), the manifest, the thumbnail, a script and an image;
\* below it a malformed .json file in an underscore directory and one in
\* Redundancy
RootFiles ==
  {[path |-> <<<<"a">> \o N_json>>, lines |-> <<BaselineText>>],
   [path |-> <<<<"p">> \o N_json>>, lines |-> <<PrivilegedText>>],
   [path |-> <<<<"m">> \o N_json>>, lines |-> <<<<"[">>>>],
   [path |-> <<<<"u">> \o N_json>>, lines |-> <<<<"[", INVALID, "]">>>>],
   [path |-> <<N_manifest>>, lines |-> <<>>],
   [path |-> <<N_thumb>>, lines |-> <<>>],
   [path |-> <<<<"b", ".", "p", "y">>>>, lines |-> <<>>],
   [path |-> <<<<"o", ".", "p", "n", "g">>>>, lines |-> <<>>]}

SubdirFiles ==
  {[path |-> <<<<"_", "d">>, <<"h">> \o N_json>>, lines |-> <<<<"[">>>>],
   [path |-> <<N_redundancy, <<"r">> \o N_json>>, lines |-> <<<<"[">>>>]}

\* os.walk is top-down: the files of the root come first
Walks ==
  {w \in UNION {[1..l -> RootFiles \cup SubdirFiles] : l \in 0..MaxFiles} :
     /\ \A i, j \in 1..Len(w) : i # j => w[i] # w[j]
     /\ \A i, j \in 1..Len(w) :
          (i < j /\ w[i] \in SubdirFiles) => w[j] \in SubdirFiles}

\* optimize_json is not running
JsonIdle ==
  /\ f = <<>>
  /\ pc = "idle"
  /\ n = 0
  /\ line = <<>>
  /\ new_lines = <<>>
  /\ full_string = <<>>
  /\ data = NoValue
  /\ decoded = NoValue
  /\ k = 0
  /\ ret = <<>>
  /\ exc = NoExc

\* create_archive is entered: nothing is listed and no archive is written
InitArchive ==
  /\ walk \in Walks
  /\ fi = 0
  /\ manifest \in {[thumbnail |-> b] : b \in BOOLEAN}
  /\ files_to_include = <<>>
  /\ files_to_remove = {}
  /\ temp_files = {}
  /\ archive = <<>>
  /\ apc = "walk"
  /\ JsonIdle

SpecArchive == InitArchive /\ [][NextArchive]_vars

----------------------------------------------------------------------------
(* Properties of the per-line stages, checked under SpecLine *)

RECURSIVE ClaimedCommentStart(_, _, _)
\* The scanner of the specification: a quote toggles in_str, and inside a
\* string a backslash makes the scan skip the next character.  The index of
\* the first // outside a string, Len(s) + 1 when there is none.
ClaimedCommentStart(s, i, in_str) ==
  IF i > Len(s) THEN Len(s) + 1
  ELSE IF in_str
       THEN IF s[i] = BSLASH THEN ClaimedCommentStart(s, i + 2, TRUE)
            ELSE ClaimedCommentStart(s, i + 1, s[i] # QUOTE)
       ELSE IF s[i] = QUOTE THEN ClaimedCommentStart(s, i + 1, TRUE)
            ELSE IF s[i] = "/" /\ i + 1 <= Len(s) /\ s[i+1] = "/" THEN i
            ELSE ClaimedCommentStart(s, i + 1, FALSE)

\* C1: after comment stripping a line is cut at the first // that lies outside
\* a string literal, and nowhere else, a string's extent being that of the
\* specification's scanner (an escaped quote does not end the string).
C1_CutAtFirstCommentOutsideString ==
  pc = "quote" =>
    line = SubSeq(f[n], 1, ClaimedCommentStart(f[n], 1, FALSE) - 1)

IsToken(w) == w # <<>> /\ \A i \in 1..Len(w) : w[i] \in Letters \cup Digits

\* C2: on a line that is a key, a colon, a token of letters and digits and
\* one of , } ] the quoter wraps the token in quotes when it holds a letter,
\* wherever the letter is, and leaves the line alone when it holds none.
C2_BareTokenWithLetterQuoted ==
  pc = "replace" =>
    LET raw == f[n]
        tok == SubSeq(raw, Len(KeyColon) + 1, Len(raw) - 1)
        term == raw[Len(raw)]
    IN  (/\ Len(raw) > Len(KeyColon) + 1
         /\ SubSeq(raw, 1, Len(KeyColon)) = KeyColon
         /\ IsToken(tok)
         /\ term \in {",", "}", "]"})
        => line = IF \E i \in 1..Len(tok) : tok[i] \in Letters
                  THEN KeyColon \o <<QUOTE>> \o tok \o <<QUOTE, term>>
                  ELSE raw

\* C10: the quoter sees the cleaned line: a line that is a key, a colon, a
\* token and a ; comes out as the same line with a , in place of the ; does.
C10_SemicolonQuotedAsComma ==
  (pc = "readline" /\ n >= 1) =>
    LET raw == f[n]
        tok == SubSeq(raw, Len(KeyColon) + 1, Len(raw) - 1)
    IN  (/\ Len(raw) > Len(KeyColon) + 1
         /\ SubSeq(raw, 1, Len(KeyColon)) = KeyColon
         /\ IsToken(tok)
         /\ raw[Len(raw)] = ";")
        => new_lines[n] = ProcessLine(KeyColon \o tok \o <<",">>)

----------------------------------------------------------------------------
(* Properties of the truncator, checked under SpecDoc *)

\* position i of s is outside the strings a quote toggles
Outside(s, i) == Cardinality({j \in 1..(i-1) : s[j] = QUOTE}) % 2 = 0

\* the bracket depth of s after position i
Depth(s, i) ==
  Cardinality({j \in 1..i : s[j] = "[" /\ Outside(s, j)})
    - Cardinality({j \in 1..i : s[j] = "]" /\ Outside(s, j)})

\* a closing bracket at i brings the depth back to zero
BalancedAt(s, i) == s[i] = "]" /\ Outside(s, i) /\ Depth(s, i) = 0

Balanced(s) == \E i \in 1..Len(s) : BalancedAt(s, i)

\* C3: when the bracket depth of the cleaned text returns to zero, the text
\* handed to the decoder is the prefix that ends with the first closing
\* bracket at which it does; what follows that bracket is dropped.
C3_TruncatedAtFirstBalance ==
  (pc = "loads" /\ Balanced(Join(new_lines))) =>
    LET s == Join(new_lines)
        e == CHOOSE i \in 1..Len(s) :
               BalancedAt(s, i) /\ \A j \in 1..(i-1) : ~BalancedAt(s, j)
    IN  full_string = SubSeq(s, 1, e)

\* a run that returned a result after text behind the array was dropped
C3_Witness ==
  /\ pc = "returned"
  /\ Balanced(Join(new_lines))
  /\ Len(full_string) < Len(Join(new_lines))

\* C4: when the bracket depth of the cleaned text never returns to zero,
\* optimize_json returns no result.
C4_UnbalancedIsFatal == pc = "returned" => Balanced(Join(new_lines))

----------------------------------------------------------------------------
(* Properties of the loop over the objects, checked under SpecPost *)

ArrayOfObjects(v) == v.t = "arr" /\ \A i \in 1..Len(v.v) : v.v[i].t = "obj"

HasMember(o, key) == \E i \in 1..Len(o.v) : o.v[i].key = key

MemberValue(o, key) == o.v[CHOOSE i \in 1..Len(o.v) : o.v[i].key = key].val

HasScripts(o) == HasMember(o, K_script) \/ HasMember(o, K_scripts)

\* C5: when an object of the decoded array has key privileged, the run ends
\* at the first such object with an error that names its id (unknown id when
\* it has none); the objects from it on are left as decoded and no text is
\* returned.
C5_PrivilegedAbortsAtFirst ==
  (ArrayOfObjects(decoded)
     /\ \E j \in 1..Len(decoded.v) : HasMember(decoded.v[j], K_privileged)) =>
    LET j == CHOOSE i \in 1..Len(decoded.v) :
               /\ HasMember(decoded.v[i], K_privileged)
               /\ \A m \in 1..(i-1) : ~HasMember(decoded.v[m], K_privileged)
        o == decoded.v[j]
    IN  /\ pc \in {"loop", "raised"}
        /\ k < j
        /\ ret = <<>>
        /\ \A m \in j..Len(decoded.v) : data.v[m] = decoded.v[m]
        /\ pc = "raised" =>
             /\ k = j - 1
             /\ exc = [type |-> "Exception",
                       args |-> <<IF HasMember(o, K_id)
                                  THEN MemberValue(o, K_id)
                                  ELSE UnknownId>>]

\* the error names x, the id of the second of three objects
C5_Witness ==
  /\ pc = "raised"
  /\ exc = [type |-> "Exception", args |-> <<Str(<<"x">>)>>]
  /\ k = 1
  /\ Len(decoded.v) = 3

\* C6: in a returned result no object has key privileged or strict lua, and
\* every object that had script or scripts when decoded has mute lua true,
\* whatever mute lua was before.
C6_OutputLegacyFree ==
  (pc = "returned" /\ decoded.t = "arr") =>
    LET out == JsonLoads(ret)
    IN  /\ out.ok
        /\ ArrayOfObjects(out.v)
        /\ Len(out.v.v) = Len(decoded.v)
        /\ \A i \in 1..Len(out.v.v) :
             /\ ~HasMember(out.v.v[i], K_privileged)
             /\ ~HasMember(out.v.v[i], K_strict_lua)
             /\ HasScripts(decoded.v[i]) =>
                  /\ HasMember(out.v.v[i], K_mute_lua)
                  /\ MemberValue(out.v.v[i], K_mute_lua) = PyTrue

\* a result for an object that had strict lua, a script and a mute lua that
\* was not true
C6_Witness ==
  /\ pc = "returned"
  /\ decoded.t = "arr"
  /\ \E i \in 1..Len(decoded.v) :
       /\ HasMember(decoded.v[i], K_strict_lua)
       /\ HasScripts(decoded.v[i])
       /\ HasMember(decoded.v[i], K_mute_lua)
       /\ MemberValue(decoded.v[i], K_mute_lua) # PyTrue

\* the members of a dict other than strict lua and mute lua, in order
Others(d) == SelectSeq(d, LAMBDA m : m.key \notin {K_strict_lua, K_mute_lua})

\* C7: a returned result has as many objects as were decoded, in the same
\* order; in each, the members other than strict lua and mute lua are the
\* decoded ones, in the same order; mute lua is the last key where it is new;
\* an object with none of strict lua, script and scripts is unchanged.
C7_OtherMembersKept ==
  (pc = "returned" /\ decoded.t = "arr") =>
    LET out == JsonLoads(ret)
    IN  /\ out.ok
        /\ ArrayOfObjects(out.v)
        /\ Len(out.v.v) = Len(decoded.v)
        /\ \A i \in 1..Len(out.v.v) :
             LET a == decoded.v[i]
                 b == out.v.v[i]
             IN  /\ Others(b.v) = Others(a.v)
                 /\ (HasScripts(a) /\ ~HasMember(a, K_mute_lua)) =>
                      (b.v # <<>> /\ b.v[Len(b.v)].key = K_mute_lua)
                 /\ (~HasScripts(a) /\ ~HasMember(a, K_strict_lua)) => b = a

\* a result of two objects or more, one of which got a new mute lua behind
\* its other members
C7_Witness ==
  /\ pc = "returned"
  /\ decoded.t = "arr"
  /\ Len(decoded.v) >= 2
  /\ \E i \in 1..Len(decoded.v) :
       /\ HasScripts(decoded.v[i])
       /\ HasMember(decoded.v[i], K_id)
       /\ ~HasMember(decoded.v[i], K_mute_lua)

\* C9: for an input that is strict JSON, an array of objects none of which
\* has privileged, strict lua, script or scripts, optimize_json returns a
\* text that decodes to what the input decodes to.
C9_StrictInputRoundTrips ==
  LET input == JsonLoads(Join(f))
  IN  (/\ pc \in {"returned", "raised"}
       /\ input.ok
       /\ ArrayOfObjects(input.v)
       /\ \A i \in 1..Len(input.v.v) :
            /\ ~HasMember(input.v.v[i], K_privileged)
            /\ ~HasMember(input.v.v[i], K_strict_lua)
            /\ ~HasScripts(input.v.v[i]))
      => /\ pc = "returned"
         /\ JsonLoads(ret).ok
         /\ JsonLoads(ret).v = input.v

----------------------------------------------------------------------------
(* Properties of create_archive, checked under SpecArchive *)

\* a .json file that is packaged and that optimize_json fails on
FailingJson(file) ==
  /\ ~Ignored(file)
  /\ ~IsManifest(file)
  /\ IsJson(file)
  /\ ~OptimizeJson(file.lines).ok

\* the files of the walk that go into the archive: those not ignored, but
\* for the thumbnail the manifest step marked for removal
Packaged ==
  SelectSeq(walk, LAMBDA w : ~Ignored(w) /\ w.path \notin files_to_remove)

\* C8: an archive is written only after the whole walk, when optimize_json
\* failed on no file; it then holds every packaged file, each .json file in
\* its normalised form.  When optimize_json fails on a file, wherever in the
\* walk, no archive is written.
C8_ArchiveAllOrNothing ==
  /\ apc = "raised" => archive = <<>>
  /\ archive # <<>> => \A i \in 1..Len(walk) : ~FailingJson(walk[i])
  /\ archive # <<>> =>
       /\ apc = "done"
       /\ fi = Len(walk)
       /\ Len(archive[1]) = Len(Packaged)
       /\ \A i \in 1..Len(Packaged) :
            /\ archive[1][i].path = Packaged[i].path
            /\ (IsJson(Packaged[i]) /\ ~IsManifest(Packaged[i])) =>
                 archive[1][i].text = OptimizeJson(Packaged[i].lines).text

\* optimize_json failed on the second of three files, after the first was
\* listed for the archive
C8_Witness ==
  /\ apc = "raised"
  /\ fi = 1
  /\ Len(files_to_include) = 1
  /\ Len(walk) = 3
  /\ archive = <<>>

----------------------------------------------------------------------------
(* The step machine of optimize_json and the call OptimizeJson agree *)

StepsAgreeWithCall ==
  /\ pc = "returned" => OptimizeJson(f) = [ok |-> TRUE, text |-> ret]
  /\ pc = "raised" => ~OptimizeJson(f).ok

====
